---- MODULE Spec2Model ----
(***************************************************************************)
(* The private-data coordinator of zome_person (private_data.rs):         *)
(* store_private_person_data, update_private_person_data and              *)
(* get_my_private_person_data, over a record store (the agents' source    *)
(* chains, addressed by action hash) and a link graph (ordered, typed     *)
(* edges).                                                                 *)
(***************************************************************************)
EXTENDS Integers, Sequences, FiniteSets, TLC

VARIABLES
  records,  \* the record store: records[h] is the record whose action hash is h
  links,    \* the link graph, in creation order (oldest first)
  last,     \* the last call: who called what with which input, and what came back
  stored,   \* per agent, the inputs of its successful stores made with a profile
  foreign,  \* the number of links written by other code
  inflight  \* the two calls an agent has issued together, and the state they were
            \* issued in (SpecConcurrent)

vars == <<records, links, last, stored, foreign, inflight>>

----------------------------------------------------------------------------
\* Bounds of the model

\* records ever written (profiles and private records together)
MaxRecords == 3
\* records ever written over the open network (SpecOpen)
MaxOpenRecords == 2
\* links written by code outside this coordinator (SpecOpen)
MaxForeignLinks == 1

Agents == {"A", "B"}

----------------------------------------------------------------------------
\* Values

\* Option<T>: None is the empty sequence, Some(x) the one-element sequence
None == << >>
Some(x) == << x >>

Fields ==
  {"legal_name", "email", "phone", "address", "emergency_contact", "time_zone", "location"}

Jane ==
  [legal_name |-> "Jane Doe", email |-> "jane@example.com", phone |-> None,
   address |-> None, emergency_contact |-> None, time_zone |-> None, location |-> None]

John ==
  [legal_name |-> "John Roe", email |-> "john@example.com", phone |-> Some(""),
   address |-> None, emergency_contact |-> None, time_zone |-> None,
   location |-> Some("Lyon")]

\* the inputs the calls are made with: one with every optional field absent, one
\* with an optional field present but empty and another present and non-empty
Inputs == {Jane, John}

\* ExternResult<T>
Ok(v) == [status |-> "ok", error |-> "", value |-> Some(v)]
Err(e) == [status |-> "err", error |-> e, value |-> None]

\* the hashes a caller can pass: those of the records written so far, and 0 for
\* a hash that resolves to nothing
Hashes(recs) == 0..Len(recs)

----------------------------------------------------------------------------
\* The integrity zome's declarations (zome_person_integrity, used through
\* `use zome_person_integrity::*`)

\* every entry type public
EntryVisibility_public(kind) == "Public"

\* the entry types' visibility: PrivatePersonData is a private entry type
EntryVisibility(kind) == IF kind = "PrivatePersonData" THEN "Private" ELSE "Public"

----------------------------------------------------------------------------
\* The record store and the link graph, as the coordinator consumes them

\* a record as a caller sees it
Record(recs, hash) ==
  [action_hash |-> hash, author |-> recs[hash].author, kind |-> recs[hash].kind,
   entry |-> recs[hash].entry, prev |-> recs[hash].prev]

\* get(hash, GetOptions::default()): nothing when the hash is unknown or the
\* entry is private to another agent
get(recs, hash, caller) ==
  IF /\ hash \in 1..Len(recs)
     /\ (EntryVisibility(recs[hash].kind) = "Public" \/ recs[hash].author = caller)
  THEN Some(Record(recs, hash))
  ELSE None

\* must_get_valid_record(hash): the record, or the substrate's error (None here)
must_get_valid_record(recs, hash, caller) == get(recs, hash, caller)

\* create_entry: appends the entry to the caller's chain; its action hash is new
create_entry(recs, caller, entry) ==
  Append(recs, [author |-> caller, kind |-> "PrivatePersonData", entry |-> entry, prev |-> 0])

\* update_entry is accepted for a previous action the caller holds: one of its
\* own PrivatePersonData records
can_update(recs, previous, caller) ==
  /\ previous \in 1..Len(recs)
  /\ recs[previous].author = caller
  /\ recs[previous].kind = "PrivatePersonData"

\* update_entry(previous, entry): a new record whose provenance is `previous`
update_entry(recs, caller, previous, entry) ==
  Append(recs,
    [author |-> caller, kind |-> "PrivatePersonData", entry |-> entry, prev |-> previous])

\* get_links(base, type): the edges from base of that type, oldest first
get_links(lnks, base, type) ==
  SelectSeq(lnks, LAMBDA l : l.type = type /\ l.base = base)

\* create_link(base, target, type, ()): always a new edge, no deduplication
create_link(lnks, base, target, type) ==
  Append(lnks, [base |-> base, target |-> target, type |-> type])

\* record.entry().to_app_option::<PrivatePersonData>()
to_app_option(record) ==
  IF record.kind = "PrivatePersonData" THEN Some(record.entry) ELSE None

----------------------------------------------------------------------------
\* The coordinator: private_data.rs

\* PrivatePersonData dropping a phone that is present but empty
PrivatePersonData_lossy(input) ==
  [legal_name |-> input.legal_name,
   email |-> input.email,
   phone |-> IF input.phone = Some("") THEN None ELSE input.phone,
   address |-> input.address,
   emergency_contact |-> input.emergency_contact,
   time_zone |-> input.time_zone,
   location |-> input.location]

\* the entry built from the input, field by field
PrivatePersonData(input) ==
  [legal_name |-> input.legal_name,
   email |-> input.email,
   phone |-> input.phone,
   address |-> input.address,
   emergency_contact |-> input.emergency_contact,
   time_zone |-> input.time_zone,
   location |-> input.location]

\* retrieve_created swallowing a read-back that returned nothing
retrieve_created_swallowed(readback) ==
  IF readback = None THEN [status |-> "ok", error |-> "", value |-> None]
  ELSE Ok(readback[1])

\* get(private_data_hash)?.ok_or(EntryOperationFailed("Failed to retrieve created ..."))?
retrieve_created(readback) ==
  IF readback = None THEN Err("EntryOperationFailed") ELSE Ok(readback[1])

\* link_private_data without its create_link
link_private_data_unlinked(lnks, caller, private_data_hash) == lnks

\* link_private_data looking up the AgentToPerson links of every agent instead
\* of the caller's
link_private_data_any_agent(lnks, caller, private_data_hash) ==
  LET person_links == SelectSeq(lnks, LAMBDA l : l.type = "AgentToPerson") IN
  IF person_links # << >>
  THEN create_link(lnks, person_links[1].target, private_data_hash, "PersonToPrivateData")
  ELSE lnks

\* link_private_data taking the caller's last AgentToPerson link instead of
\* the first
link_private_data_last_person(lnks, caller, private_data_hash) ==
  LET person_links == get_links(lnks, caller, "AgentToPerson") IN
  IF person_links # << >>
  THEN create_link(lnks, person_links[Len(person_links)].target, private_data_hash,
                   "PersonToPrivateData")
  ELSE lnks

\* "Link from person to private data if person exists"
link_private_data(lnks, caller, private_data_hash) ==
  LET person_links == get_links(lnks, caller, "AgentToPerson") IN
  IF person_links # << >>
  THEN create_link(lnks, person_links[1].target, private_data_hash, "PersonToPrivateData")
  ELSE lnks

\* original_resolves also requiring the original to be a private record of the
\* caller that starts a chain
original_resolves_own_root(recs, original, caller) ==
  /\ must_get_valid_record(recs, original, caller) # None
  /\ recs[original].kind = "PrivatePersonData"
  /\ recs[original].author = caller
  /\ recs[original].prev = 0

\* the update made without resolving the original
original_resolves_unchecked(recs, original, caller) == TRUE

\* must_get_valid_record(input.original_action_hash.clone())?
original_resolves(recs, original, caller) ==
  must_get_valid_record(recs, original, caller) # None

\* retrieve_updated swallowing a read-back that returned nothing
retrieve_updated_swallowed(readback) ==
  IF readback = None THEN [status |-> "ok", error |-> "", value |-> None]
  ELSE Ok(readback[1])

\* get(updated_private_data_hash)?.ok_or(EntryOperationFailed("Failed to retrieve updated ..."))?
retrieve_updated(readback) ==
  IF readback = None THEN Err("EntryOperationFailed") ELSE Ok(readback[1])

\* update_writes that also rewrites the entry at `previous`
update_writes_in_place(recs, lnks, caller, previous, entry) ==
  [records |-> update_entry([recs EXCEPT ![previous].entry = entry], caller, previous, entry),
   links |-> lnks]

\* update_writes that also links the caller's profile to the new record
update_writes_relinking(recs, lnks, caller, previous, entry) ==
  [records |-> update_entry(recs, caller, previous, entry),
   links |-> link_private_data(lnks, caller, Len(recs) + 1)]

\* update_writes that also moves the links to `previous` onto the new record
update_writes_retargeting(recs, lnks, caller, previous, entry) ==
  [records |-> update_entry(recs, caller, previous, entry),
   links |-> [i \in DOMAIN lnks |->
                IF lnks[i].type = "PersonToPrivateData" /\ lnks[i].target = previous
                THEN [lnks[i] EXCEPT !.target = Len(recs) + 1]
                ELSE lnks[i]]]

\* update_writes that also links the caller's profile to `previous`
update_writes_linking_previous(recs, lnks, caller, previous, entry) ==
  [records |-> update_entry(recs, caller, previous, entry),
   links |-> link_private_data(lnks, caller, previous)]

\* update_writes creating a fresh entry instead of updating `previous`
update_writes_unchained(recs, lnks, caller, previous, entry) ==
  [records |-> create_entry(recs, caller, entry), links |-> lnks]

\* the writes of update_private_person_data: one update_entry and nothing else
update_writes(recs, lnks, caller, previous, entry) ==
  [records |-> update_entry(recs, caller, previous, entry), links |-> lnks]

\* get_my_private_person_data reporting an error when the target does not
\* resolve
get_my_private_person_data_strict(recs, lnks, caller, fault) ==
  LET Fail == [status |-> "err", error |-> "Substrate", value |-> None, from |-> 0]
      Nothing == [status |-> "ok", error |-> "", value |-> Some(None), from |-> 0]
      person_links == get_links(lnks, caller, "AgentToPerson")
  IN
  IF fault = "get_links_agent" THEN Fail
  ELSE IF person_links = << >> THEN Nothing
  ELSE IF fault = "get_links_person" THEN Fail
  ELSE
    LET private_data_links ==
          get_links(lnks, person_links[1].target, "PersonToPrivateData")
    IN
    IF private_data_links = << >> THEN Nothing
    ELSE IF fault = "get" THEN Fail
    ELSE
      LET record == get(recs, private_data_links[1].target, caller) IN
      IF record = None THEN Fail
      ELSE IF to_app_option(record[1]) = None THEN Fail
      ELSE [status |-> "ok", error |-> "", value |-> Some(to_app_option(record[1])),
            from |-> record[1].action_hash]

\* get_my_private_person_data taking the first PersonToPrivateData link whose
\* target it can read and decode instead of the first link
get_my_private_person_data_first_readable(recs, lnks, caller, fault) ==
  LET Fail == [status |-> "err", error |-> "Substrate", value |-> None, from |-> 0]
      Nothing == [status |-> "ok", error |-> "", value |-> Some(None), from |-> 0]
      person_links == get_links(lnks, caller, "AgentToPerson")
  IN
  IF fault = "get_links_agent" THEN Fail
  ELSE IF person_links = << >> THEN Nothing
  ELSE IF fault = "get_links_person" THEN Fail
  ELSE
    LET private_data_links ==
          SelectSeq(get_links(lnks, person_links[1].target, "PersonToPrivateData"),
                    LAMBDA l : /\ get(recs, l.target, caller) # None
                               /\ to_app_option(get(recs, l.target, caller)[1]) # None)
    IN
    IF private_data_links = << >> THEN Nothing
    ELSE IF fault = "get" THEN Fail
    ELSE
      LET record == get(recs, private_data_links[1].target, caller) IN
      [status |-> "ok", error |-> "", value |-> Some(to_app_option(record[1])),
       from |-> record[1].action_hash]

\* get_my_private_person_data taking the last PersonToPrivateData link instead
\* of the first
get_my_private_person_data_last(recs, lnks, caller, fault) ==
  LET Fail == [status |-> "err", error |-> "Substrate", value |-> None, from |-> 0]
      Nothing == [status |-> "ok", error |-> "", value |-> Some(None), from |-> 0]
      person_links == get_links(lnks, caller, "AgentToPerson")
  IN
  IF fault = "get_links_agent" THEN Fail
  ELSE IF person_links = << >> THEN Nothing
  ELSE IF fault = "get_links_person" THEN Fail
  ELSE
    LET private_data_links ==
          get_links(lnks, person_links[1].target, "PersonToPrivateData")
    IN
    IF private_data_links = << >> THEN Nothing
    ELSE IF fault = "get" THEN Fail
    ELSE
      LET record ==
            get(recs, private_data_links[Len(private_data_links)].target, caller)
      IN
      IF record = None THEN Nothing
      ELSE IF to_app_option(record[1]) = None THEN Nothing
      ELSE [status |-> "ok", error |-> "", value |-> Some(to_app_option(record[1])),
            from |-> record[1].action_hash]

\* get_my_private_person_data: the result, and in `from` the action hash of the
\* record the returned data was decoded from (0 when none is returned).
\* `fault` names the host call that reports an error, if one does (an error
\* of agent_info has the effect of one of the get_links that follows it).
get_my_private_person_data(recs, lnks, caller, fault) ==
  LET Fail == [status |-> "err", error |-> "Substrate", value |-> None, from |-> 0]
      Nothing == [status |-> "ok", error |-> "", value |-> Some(None), from |-> 0]
      person_links == get_links(lnks, caller, "AgentToPerson")
  IN
  IF fault = "get_links_agent" THEN Fail
  ELSE IF person_links = << >> THEN Nothing
  ELSE IF fault = "get_links_person" THEN Fail
  ELSE
    LET private_data_links ==
          get_links(lnks, person_links[1].target, "PersonToPrivateData")
    IN
    IF private_data_links = << >> THEN Nothing
    ELSE IF fault = "get" THEN Fail
    ELSE
      LET record == get(recs, private_data_links[1].target, caller) IN
      IF record = None THEN Nothing
      ELSE IF to_app_option(record[1]) = None THEN Nothing
      ELSE [status |-> "ok", error |-> "", value |-> Some(to_app_option(record[1])),
            from |-> record[1].action_hash]

----------------------------------------------------------------------------
\* What a call leaves in `last`: the call and its result, and of the state it
\* was made in, the caller's profile and the number of PersonToPrivateData
\* links from it. readback is None when no read-back returned, else
\* Some(what it returned).

\* the caller's profile as the coordinator finds it: the target of its first
\* AgentToPerson link
FirstProfile(lnks, caller) ==
  LET person_links == get_links(lnks, caller, "AgentToPerson") IN
  IF person_links = << >> THEN None ELSE Some(person_links[1].target)

\* the PersonToPrivateData links from the caller's profile
DataLinks(lnks, caller) ==
  IF FirstProfile(lnks, caller) = None THEN << >>
  ELSE get_links(lnks, FirstProfile(lnks, caller)[1], "PersonToPrivateData")

NoCall ==
  [op |-> "init", caller |-> "", input |-> None, original |-> 0, previous |-> 0,
   result |-> Err(""), readback |-> None, fault |-> "none", profile |-> None,
   prior |-> 0, hash |-> 0, resolved |-> FALSE]

\* no calls in flight
Idle == [pre |-> [records |-> << >>, links |-> << >>], calls |-> << >>]

----------------------------------------------------------------------------
Init ==
  /\ records = << >>
  /\ links = << >>
  /\ last = NoCall
  /\ stored = [a \in Agents |-> << >>]
  /\ foreign = 0
  /\ inflight = Idle

\* zome_person's create_person, outside this file: a public Person record and
\* the AgentToPerson link from its author to it
CreateProfile(caller) ==
  /\ Len(records) < MaxRecords
  /\ records' = Append(records,
       [author |-> caller, kind |-> "Person", entry |-> [name |-> caller], prev |-> 0])
  /\ links' = create_link(links, caller, Len(records) + 1, "AgentToPerson")
  /\ last' = [NoCall EXCEPT !.op = "create_profile", !.caller = caller,
                            !.hash = Len(records) + 1]
  /\ UNCHANGED stored

\* store_private_person_data(input), called by `caller`.
\*   wr:    whether the read-back observes the write ("seen") or not ("missed")
\*   fault: the host call that reports an error, if one does
\*   kept:  whether the entry written by a call that then fails stays written
\* (a choice the call does not get to read is fixed, not enumerated, and a
\* fault is one of a host call that the call makes)
store_private_person_data(caller, input, wr, fault, kept) ==
  LET private_data == PrivatePersonData(input)
      private_data_hash == Len(records) + 1
      written == create_entry(records, caller, private_data)
      readback == IF wr = "seen" THEN get(written, private_data_hash, caller) ELSE None
      record == retrieve_created(readback)
      person_links == get_links(links, caller, "AgentToPerson")
      Call(res, rb) ==
        [NoCall EXCEPT !.op = "store", !.caller = caller, !.input = Some(input),
                       !.result = res, !.readback = rb, !.fault = fault,
                       !.profile = FirstProfile(links, caller),
                       !.prior = Len(DataLinks(links, caller)),
                       !.hash = private_data_hash]
      Failed(res, rb, recs) ==
        /\ records' = recs
        /\ links' = links
        /\ last' = Call(res, rb)
        /\ stored' = stored
  IN
  /\ Len(records) < MaxRecords
  /\ IF fault = "create_entry" THEN
       /\ wr = "seen" /\ kept /\ input = Jane
       /\ Failed(Err("Substrate"), None, records)
     ELSE IF fault = "get" THEN
       /\ wr = "seen"
       /\ Failed(Err("Substrate"), None, IF kept THEN written ELSE records)
     ELSE IF record.status = "err" THEN
       /\ fault = "none"
       /\ Failed(record, Some(readback), IF kept THEN written ELSE records)
     ELSE IF fault = "get_links" THEN
       Failed(Err("Substrate"), Some(readback), IF kept THEN written ELSE records)
     ELSE IF fault = "create_link" THEN
       /\ person_links # << >>
       /\ Failed(Err("Substrate"), Some(readback), IF kept THEN written ELSE records)
     ELSE
       /\ kept
       /\ records' = written
       /\ links' = link_private_data(links, caller, private_data_hash)
       /\ last' = Call(record, Some(readback))
       /\ stored' = IF person_links # << >>
                    THEN [stored EXCEPT ![caller] = Append(@, input)]
                    ELSE stored

\* update_private_person_data(input), called by `caller`
update_private_person_data(caller, original, previous, input, wr, fault, kept) ==
  LET updated_private_data == PrivatePersonData(input)
      updated_private_data_hash == Len(records) + 1
      written == update_writes(records, links, caller, previous, updated_private_data)
      readback ==
        IF wr = "seen" THEN get(written.records, updated_private_data_hash, caller)
        ELSE None
      record == retrieve_updated(readback)
      Call(res, rb) ==
        [NoCall EXCEPT !.op = "update", !.caller = caller, !.input = Some(input),
                       !.original = original, !.previous = previous,
                       !.result = res, !.readback = rb, !.fault = fault,
                       !.profile = FirstProfile(links, caller),
                       !.prior = Len(DataLinks(links, caller)),
                       !.hash = updated_private_data_hash,
                       !.resolved = (must_get_valid_record(records, original, caller) # None)]
      Failed(res, rb, w) ==
        /\ records' = w.records
        /\ links' = w.links
        /\ last' = Call(res, rb)
        /\ stored' = stored
      Before == [records |-> records, links |-> links]
  IN
  /\ Len(records) < MaxRecords
  /\ IF fault = "must_get_valid_record" \/ ~original_resolves(records, original, caller)
     THEN
       /\ wr = "seen" /\ kept /\ input = Jane
       /\ fault \in {"none", "must_get_valid_record"}
       /\ fault = "must_get_valid_record" => original = 0 /\ previous = 0
       /\ Failed(Err("Substrate"), None, Before)
     ELSE IF fault = "update_entry" \/ ~can_update(records, previous, caller)
     THEN
       /\ wr = "seen" /\ kept /\ input = Jane
       /\ fault \in {"none", "update_entry"}
       /\ Failed(Err("Substrate"), None, Before)
     ELSE IF fault = "get" THEN
       /\ wr = "seen"
       /\ Failed(Err("Substrate"), None, IF kept THEN written ELSE Before)
     ELSE IF record.status = "err" THEN
       /\ fault = "none"
       /\ Failed(record, Some(readback), IF kept THEN written ELSE Before)
     ELSE
       /\ kept
       /\ records' = written.records
       /\ links' = written.links
       /\ last' = Call(record, Some(readback))
       /\ stored' = stored

\* GetMy that links the caller's profile to the caller's latest private record
\* when the profile has no PersonToPrivateData link
GetMy_linking(caller, fault) ==
  LET out == get_my_private_person_data(records, links, caller, fault)
      own == {h \in 1..Len(records) :
                records[h].kind = "PrivatePersonData" /\ records[h].author = caller}
  IN
  /\ fault = "none" \/ out.status = "err"
  /\ last' = [NoCall EXCEPT !.op = "get", !.caller = caller, !.fault = fault,
                !.result = [status |-> out.status, error |-> out.error, value |-> out.value],
                !.profile = FirstProfile(links, caller),
                !.prior = Len(DataLinks(links, caller)),
                !.hash = out.from]
  /\ links' = IF DataLinks(links, caller) = << >> /\ own # {}
              THEN link_private_data(links, caller, CHOOSE h \in own : \A g \in own : g <= h)
              ELSE links
  /\ UNCHANGED <<records, stored>>

\* get_my_private_person_data(()), called by `caller`
GetMy(caller, fault) ==
  LET out == get_my_private_person_data(records, links, caller, fault) IN
  /\ fault = "none" \/ out.status = "err"
  /\ last' = [NoCall EXCEPT !.op = "get", !.caller = caller, !.fault = fault,
                !.result = [status |-> out.status, error |-> out.error, value |-> out.value],
                !.profile = FirstProfile(links, caller),
                !.prior = Len(DataLinks(links, caller)),
                !.hash = out.from]
  /\ UNCHANGED <<records, links, stored>>

\* a link written by other code of the network: a PersonToPrivateData link from
\* an existing profile to any hash
ForeignLink(base, target) ==
  /\ foreign < MaxForeignLinks
  /\ base \in 1..Len(records)
  /\ records[base].kind = "Person"
  /\ links' = create_link(links, base, target, "PersonToPrivateData")
  /\ foreign' = foreign + 1
  /\ last' = [NoCall EXCEPT !.op = "link", !.hash = target]
  /\ UNCHANGED <<records, stored>>

----------------------------------------------------------------------------
Outcomes == {"seen", "missed"}
StoreFaults == {"create_entry", "get", "get_links", "create_link"}
UpdateFaults == {"must_get_valid_record", "update_entry", "get"}
GetFaults == {"get_links_agent", "get_links_person", "get"}

\* the coordinator over a substrate whose host calls report no error
Next ==
  \/ \E a \in Agents : CreateProfile(a) /\ UNCHANGED <<foreign, inflight>>
  \/ \E a \in Agents, input \in Inputs, wr \in Outcomes, kept \in BOOLEAN :
       store_private_person_data(a, input, wr, "none", kept) /\ UNCHANGED <<foreign, inflight>>
  \/ \E a \in Agents, original \in Hashes(records), previous \in Hashes(records), input \in Inputs,
        wr \in Outcomes, kept \in BOOLEAN :
       update_private_person_data(a, original, previous, input, wr, "none", kept)
         /\ UNCHANGED <<foreign, inflight>>
  \/ \E a \in Agents : GetMy(a, "none") /\ UNCHANGED <<foreign, inflight>>

Spec == Init /\ [][Next]_vars

\* the same over an open network: host calls may report errors, and other code
\* may write links
NextOpen ==
  \/ \E a \in Agents : 
       Len(records) < MaxOpenRecords /\ CreateProfile(a) /\ UNCHANGED <<foreign, inflight>>
  \/ \E a \in Agents, input \in Inputs, wr \in Outcomes, kept \in BOOLEAN,
        fault \in StoreFaults \cup {"none"} :
       /\ Len(records) < MaxOpenRecords
       /\ store_private_person_data(a, input, wr, fault, kept)
       /\ UNCHANGED <<foreign, inflight>>
  \/ \E a \in Agents, original \in Hashes(records), previous \in Hashes(records),
        input \in Inputs, wr \in Outcomes, kept \in BOOLEAN,
        fault \in UpdateFaults \cup {"none"} :
       /\ Len(records) < MaxOpenRecords
       /\ update_private_person_data(a, original, previous, input, wr, fault, kept)
       /\ UNCHANGED <<foreign, inflight>>
  \/ \E a \in Agents, fault \in GetFaults \cup {"none"} :
       GetMy(a, fault) /\ UNCHANGED <<foreign, inflight>>
  \/ \E base \in Hashes(records), target \in Hashes(records) :
       ForeignLink(base, target) /\ UNCHANGED inflight

SpecOpen == Init /\ [][NextOpen]_vars

----------------------------------------------------------------------------
\* Two calls issued together by one agent, taken host call by host call.

\* a call as issued: pc is the host call it makes next
StoreCall(caller, input) ==
  [op |-> "store", caller |-> caller, input |-> input, original |-> 0, previous |-> 0,
   pc |-> "create_entry", started |-> FALSE, hash |-> 0, person |-> None]

UpdateCall(caller, original, previous, input) ==
  [op |-> "update", caller |-> caller, input |-> input, original |-> original,
   previous |-> previous, pc |-> "must_get_valid_record", started |-> FALSE,
   hash |-> 0, person |-> None]

\* the calls an agent can issue in the current state
CallsOf(caller) ==
  {StoreCall(caller, input) : input \in Inputs}
    \cup {UpdateCall(caller, original, previous, input) :
            original \in Hashes(records), previous \in Hashes(records), input \in Inputs}

\* calls of one agent taken in any order, each whenever it has a step to take
serialized_never(calls, i) == TRUE

\* the substrate's ordering of one agent's calls: a call takes a step only
\* while no other call of the same agent is part-way through
serialized(calls, i) ==
  \A j \in DOMAIN calls :
    (j # i /\ calls[j].caller = calls[i].caller) =>
      (~calls[j].started \/ calls[j].pc = "done")

\* one host call of a store: create_entry, get, get_links, create_link in turn
StoreStep(c, recs, lnks) ==
  CASE c.pc = "create_entry" ->
         [records |-> create_entry(recs, c.caller, PrivatePersonData(c.input)),
          links |-> lnks,
          call |-> [c EXCEPT !.pc = "get", !.started = TRUE, !.hash = Len(recs) + 1]]
    [] c.pc = "get" ->
         [records |-> recs, links |-> lnks,
          call |-> [c EXCEPT !.pc =
                      IF retrieve_created(get(recs, c.hash, c.caller)).status = "err"
                      THEN "done" ELSE "get_links"]]
    [] c.pc = "get_links" ->
         [records |-> recs, links |-> lnks,
          call |-> [c EXCEPT !.person = FirstProfile(lnks, c.caller),
                             !.pc = IF FirstProfile(lnks, c.caller) = None
                                    THEN "done" ELSE "create_link"]]
    [] c.pc = "create_link" ->
         [records |-> recs,
          links |-> create_link(lnks, c.person[1], c.hash, "PersonToPrivateData"),
          call |-> [c EXCEPT !.pc = "done"]]

\* one host call of an update: must_get_valid_record, update_entry, get in turn
UpdateStep(c, recs, lnks) ==
  CASE c.pc = "must_get_valid_record" ->
         [records |-> recs, links |-> lnks,
          call |-> [c EXCEPT !.started = TRUE,
                             !.pc = IF original_resolves(recs, c.original, c.caller)
                                    THEN "update_entry" ELSE "done"]]
    [] c.pc = "update_entry" ->
         IF can_update(recs, c.previous, c.caller)
         THEN LET w == update_writes(recs, lnks, c.caller, c.previous,
                                     PrivatePersonData(c.input))
              IN [records |-> w.records, links |-> w.links,
                  call |-> [c EXCEPT !.pc = "get", !.hash = Len(recs) + 1]]
         ELSE [records |-> recs, links |-> lnks, call |-> [c EXCEPT !.pc = "done"]]
    [] c.pc = "get" ->
         [records |-> recs, links |-> lnks, call |-> [c EXCEPT !.pc = "done"]]

\* an agent issues two calls together
Issue(caller, c1, c2) ==
  /\ inflight = Idle
  /\ Len(records) + 2 <= MaxRecords
  /\ inflight' = [pre |-> [records |-> records, links |-> links], calls |-> <<c1, c2>>]
  /\ last' = [NoCall EXCEPT !.op = "issue", !.caller = caller]
  /\ UNCHANGED <<records, links, stored, foreign>>

\* call i makes its next host call
Step(i) ==
  /\ i \in DOMAIN inflight.calls
  /\ inflight.calls[i].pc # "done"
  /\ serialized(inflight.calls, i)
  /\ LET c == inflight.calls[i]
         out == IF c.op = "store" THEN StoreStep(c, records, links)
                ELSE UpdateStep(c, records, links)
     IN /\ records' = out.records
        /\ links' = out.links
        /\ inflight' = [inflight EXCEPT !.calls[i] = out.call]
  /\ UNCHANGED <<last, stored, foreign>>

\* a call run from start to end on its own: the records and links it leaves
Run(st, c) ==
  IF c.op = "store"
  THEN [records |-> create_entry(st.records, c.caller, PrivatePersonData(c.input)),
        links |-> link_private_data(st.links, c.caller, Len(st.records) + 1)]
  ELSE IF /\ original_resolves(st.records, c.original, c.caller)
          /\ can_update(st.records, c.previous, c.caller)
       THEN update_writes(st.records, st.links, c.caller, c.previous,
                          PrivatePersonData(c.input))
       ELSE st

\* the state is prepared by whole calls, then two calls are issued together and
\* run to their end
NextConcurrent ==
  \/ \E a \in Agents :
       /\ inflight = Idle /\ Len(records) + 2 < MaxRecords
       /\ CreateProfile(a) /\ UNCHANGED <<foreign, inflight>>
  \/ \E a \in Agents, input \in Inputs :
       /\ inflight = Idle /\ Len(records) + 2 < MaxRecords
       /\ store_private_person_data(a, input, "seen", "none", TRUE)
       /\ UNCHANGED <<foreign, inflight>>
  \/ \E a \in Agents : \E c1 \in CallsOf(a), c2 \in CallsOf(a) : Issue(a, c1, c2)
  \/ \E i \in {1, 2} : Step(i)

SpecConcurrent == Init /\ [][NextConcurrent]_vars

----------------------------------------------------------------------------
\* The claims

\* what get_my_private_person_data returns to `a` in the current state
MyData(a) == get_my_private_person_data(records, links, a, "none")

StoreOk == last.op = "store" /\ last.result.status = "ok"
UpdateOk == last.op = "update" /\ last.result.status = "ok"

\* C1, as stated: after a successful store of P by an agent that has a profile,
\* get_my_private_person_data returns Some(P) to that agent.
C1_StoreThenGetReturnsStored ==
  (StoreOk /\ last.profile # None) =>
    /\ MyData(last.caller).status = "ok"
    /\ MyData(last.caller).value = Some(Some(last.input[1]))

\* C1, amended: after a successful store of P by an agent that has a profile
\* from which no PersonToPrivateData link existed before the call,
\* get_my_private_person_data returns Some(P) to that agent, read from the
\* record just written.
C1_FirstStoreThenGetReturnsStored ==
  (StoreOk /\ last.profile # None /\ last.prior = 0) =>
    /\ MyData(last.caller).status = "ok"
    /\ MyData(last.caller).value = Some(Some(last.input[1]))
    /\ MyData(last.caller).from = last.hash

C1_Witness ==
  /\ StoreOk /\ last.profile # None /\ last.prior = 0
  /\ last.input = Some(John)

\* C2: a store by an agent with no AgentToPerson link succeeds whenever its
\* read-back returns the record (the missing profile is no cause of failure),
\* and when it succeeds it returns the record it wrote (one new private record
\* of the caller holding the input), writes no link, and
\* get_my_private_person_data then returns nothing to that agent.
C2_OrphanStore ==
  [][ (last'.op = "store" /\ last'.fault = "none"
        /\ last'.readback # None /\ last'.readback[1] # None
        /\ get_links(links, last'.caller, "AgentToPerson") = << >>)
      => /\ last'.result.status = "ok"
         /\ links' = links
         /\ Len(records') = Len(records) + 1
         /\ records'[Len(records')].author = last'.caller
         /\ records'[Len(records')].kind = "PrivatePersonData"
         /\ records'[Len(records')].entry = last'.input[1]
         /\ last'.result.value[1].action_hash = Len(records')
         /\ last'.result.value[1].entry = last'.input[1]
         /\ get_my_private_person_data(records', links', last'.caller, "none").status = "ok"
         /\ get_my_private_person_data(records', links', last'.caller, "none").value
              = Some(None)
    ]_vars

C2_Witness ==
  /\ StoreOk /\ last.profile = None
  /\ \E i \in 1..Len(links) : links[i].type = "AgentToPerson"
  /\ MyData(last.caller).value = Some(None)

\* C3: once an agent with a profile has made two or more successful stores,
\* its profile carries one PersonToPrivateData link per store, in the order of
\* the stores, to pairwise distinct private records holding the stored inputs,
\* and every get_my_private_person_data returns the input of the first store.
C3_MultipleLinks ==
  \A a \in Agents :
    Len(stored[a]) >= 2 =>
      LET dl == DataLinks(links, a) IN
      /\ Len(dl) = Len(stored[a])
      /\ \A i, j \in 1..Len(dl) : i # j => dl[i].target # dl[j].target
      /\ \A i \in 1..Len(dl) :
           /\ dl[i].target \in 1..Len(records)
           /\ records[dl[i].target].kind = "PrivatePersonData"
           /\ records[dl[i].target].author = a
           /\ records[dl[i].target].entry = stored[a][i]
      /\ MyData(a).status = "ok"
      /\ MyData(a).value = Some(Some(stored[a][1]))
      /\ MyData(a).from = dl[1].target
      /\ (last.op = "get" /\ last.caller = a) =>
           last.result = Ok(Some(stored[a][1]))

C3_Witness ==
  /\ last.op = "get"
  /\ Len(stored[last.caller]) = 2
  /\ stored[last.caller][1] # stored[last.caller][2]
  /\ last.result = Ok(Some(stored[last.caller][1]))

\* whether hash h resolves to nothing for agent a: unknown, or a private entry
\* of another agent
Unreadable(h, a) ==
  \/ h \notin 1..Len(records)
  \/ (records[h].kind = "PrivatePersonData" /\ records[h].author # a)

\* C4, as stated: get_my_private_person_data never completes with an error.
C4_GetNeverFails == last.op = "get" => last.result.status = "ok"

\* C4, amended: get_my_private_person_data completes with an error exactly
\* when one of the host calls it makes reports one, and the error is the
\* host's, never EntryOperationFailed; otherwise it completes with an optional
\* result, which is nothing when the caller has no AgentToPerson link, when its
\* profile has no PersonToPrivateData link, and when the first such link's
\* target is unreadable by the caller or is not a PrivatePersonData record.
C4_GetFailsOnlyOnHostError ==
  last.op = "get" =>
    LET a == last.caller
        dl == DataLinks(links, a)
    IN
    /\ last.result.status = "err" <=> last.fault # "none"
    /\ last.result.status = "err" => last.result = Err("Substrate")
    /\ last.result.status = "ok" =>
         /\ last.result.value # None
         /\ get_links(links, a, "AgentToPerson") = << >> => last.result.value = Some(None)
         /\ dl = << >> => last.result.value = Some(None)
         /\ (dl # << >> /\ Unreadable(dl[1].target, a)) => last.result.value = Some(None)
         /\ (dl # << >> /\ ~Unreadable(dl[1].target, a)
               /\ records[dl[1].target].kind # "PrivatePersonData")
              => last.result.value = Some(None)

C4_Witness ==
  /\ last.op = "get" /\ last.result = Ok(None)
  /\ DataLinks(links, last.caller) # << >>
  /\ ~Unreadable(DataLinks(links, last.caller)[1].target, last.caller)
  /\ records[DataLinks(links, last.caller)[1].target].kind = "Person"

\* C5: a PrivatePersonData record is never returned to an agent other than its
\* author: get of its hash by another agent returns nothing, a
\* get_my_private_person_data of another agent never returns its data, and the
\* record a store or an update returns is the caller's own.
C5_Visibility ==
  /\ \A b \in Agents, h \in 1..Len(records) :
       (records[h].kind = "PrivatePersonData" /\ records[h].author # b) =>
         /\ get(records, h, b) = None
         /\ MyData(b).from # h
  /\ (last.op = "get" /\ last.hash # 0) => records[last.hash].author = last.caller
  /\ (last.op \in {"store", "update"} /\ last.result.status = "ok") =>
       last.result.value[1].author = last.caller

C5_Witness ==
  /\ last.op = "get" /\ last.result = Ok(None)
  /\ DataLinks(links, last.caller) # << >>
  /\ LET h == DataLinks(links, last.caller)[1].target IN
       /\ h \in 1..Len(records)
       /\ records[h].kind = "PrivatePersonData"
       /\ records[h].author # last.caller
       /\ get(records, h, records[h].author) # None

\* C6: no step changes or removes the record at an existing hash, which keeps
\* resolving for its author to what it held; and after a successful update the
\* new hash resolves for the caller to the updated data, with `previous` as
\* its predecessor.
C6_UpdateChainImmutable ==
  [][ /\ \A h \in 1..Len(records) :
           /\ h <= Len(records')
           /\ records'[h] = records[h]
           /\ get(records', h, records[h].author) # None
           /\ get(records', h, records[h].author) = get(records, h, records[h].author)
      /\ (last'.op = "update" /\ last'.result.status = "ok") =>
           /\ Len(records') = Len(records) + 1
           /\ last'.hash = Len(records')
           /\ get(records', last'.hash, last'.caller) # None
           /\ get(records', last'.hash, last'.caller)[1].entry = last'.input[1]
           /\ get(records', last'.hash, last'.caller)[1].prev = last'.previous
           /\ last'.result.value[1].entry = last'.input[1]
    ]_vars

C6_Witness ==
  /\ UpdateOk
  /\ records[last.previous].entry # last.input[1]
  /\ records[last.previous].prev # 0
  /\ records[last.hash].entry = last.input[1]

\* C7: the record a successful store returns is the one read back from the
\* hash it wrote, and its entry equals the input in each of the seven fields,
\* None and Some("") kept apart.
C7_RoundTrip ==
  StoreOk =>
    /\ last.hash \in 1..Len(records)
    /\ get(records, last.hash, last.caller) = last.result.value
    /\ DOMAIN last.result.value[1].entry = Fields
    /\ \A f \in Fields : last.result.value[1].entry[f] = last.input[1][f]

C7_Witness ==
  /\ StoreOk
  /\ last.result.value[1].entry.phone = Some("")
  /\ last.result.value[1].entry.address = None

\* C8: a store or update whose read-back returns nothing fails with
\* EntryOperationFailed and returns no record, and a store or update that
\* succeeds returns the record its read-back returned.
C8_VerificationFailureSurfaced ==
  last.op \in {"store", "update"} =>
    /\ last.readback = Some(None) => last.result = Err("EntryOperationFailed")
    /\ last.result.status = "ok" =>
         /\ last.readback # None
         /\ last.readback[1] # None
         /\ last.result.value = last.readback[1]

C8_Witness ==
  /\ last.op = "update"
  /\ last.readback = Some(None)
  /\ last.result = Err("EntryOperationFailed")

\* C9: an update whose original hash does not resolve for the caller fails
\* with the substrate's error and writes nothing: records and links are
\* unchanged.
C9_UnresolvableOriginal ==
  [][ (last'.op = "update" /\ Unreadable(last'.original, last'.caller)) =>
        /\ last'.result = Err("Substrate")
        /\ records' = records
        /\ links' = links
    ]_vars

C9_Witness ==
  /\ last.op = "update"
  /\ Unreadable(last.original, last.caller)
  /\ can_update(records, last.previous, last.caller)
  /\ last.result = Err("Substrate")

\* C10: an update, successful or not, leaves the links as they were.
C10_UpdateCreatesNoLink ==
  [][ last'.op = "update" => links' = links ]_vars

C10_Witness ==
  /\ UpdateOk
  /\ DataLinks(links, last.caller) # << >>
  /\ DataLinks(links, last.caller)[1].target = last.previous

\* whether the two calls issued together have both ended
BothDone ==
  /\ inflight # Idle
  /\ \A i \in DOMAIN inflight.calls : inflight.calls[i].pc = "done"

\* C11: when two store/update calls issued together by one agent have both
\* ended, the records (with their provenance) and the links (in order) are
\* those left by running the two calls one after the other, in one of the two
\* orders, from the state they were issued in; and at no time are both calls
\* part-way through.
C11_PerIdentitySerialization ==
  /\ BothDone =>
       LET st == [records |-> records, links |-> links]
           c1 == inflight.calls[1]
           c2 == inflight.calls[2]
       IN \/ st = Run(Run(inflight.pre, c1), c2)
          \/ st = Run(Run(inflight.pre, c2), c1)
  /\ inflight # Idle =>
       ~(\A i \in DOMAIN inflight.calls :
            inflight.calls[i].started /\ inflight.calls[i].pc # "done")

C11_Witness ==
  /\ BothDone
  /\ inflight.calls[1].op = "store" /\ inflight.calls[2].op = "store"
  /\ inflight.calls[1].input # inflight.calls[2].input
  /\ inflight.calls[1].person # None
  /\ records[Len(inflight.pre.records) + 1].entry = inflight.calls[2].input
  /\ Len(links) = Len(inflight.pre.links) + 2

\* the hashes of the records authored by agent b
RecordsOf(recs, b) == {h \in 1..Len(recs) : recs[h].author = b}

\* C12: a store, update or get by an agent leaves as they were, for every
\* other agent b: the records b authored (none changed, none added), the
\* links from b and from b's profiles, and what get_my_private_person_data
\* returns to b.
C12_CrossIdentityIndependence ==
  [][ last'.op \in {"store", "update", "get"} =>
        \A b \in Agents \ {last'.caller} :
          /\ RecordsOf(records', b) = RecordsOf(records, b)
          /\ \A h \in RecordsOf(records, b) : records'[h] = records[h]
          /\ get_links(links', b, "AgentToPerson") = get_links(links, b, "AgentToPerson")
          /\ \A h \in RecordsOf(records, b) :
               records[h].kind = "Person" =>
                 get_links(links', h, "PersonToPrivateData")
                   = get_links(links, h, "PersonToPrivateData")
          /\ get_my_private_person_data(records', links', b, "none") = MyData(b)
    ]_vars

C12_Witness ==
  /\ StoreOk
  /\ \E b \in Agents \ {last.caller} :
       /\ DataLinks(links, b) # << >>
       /\ MyData(b).from # 0
       /\ records[last.hash].entry # records[MyData(b).from].entry

\* whether agent a has a profile, and whether it has a private record
HasProfile(lnks, a) == get_links(lnks, a, "AgentToPerson") # << >>
HasPrivate(recs, a) == \E h \in RecordsOf(recs, a) : recs[h].kind = "PrivatePersonData"

\* NoProfile = 0, ProfileOnly = 1, ProfileWithPrivateData = 2
Lifecycle(recs, lnks, a) ==
  IF ~HasProfile(lnks, a) THEN 0 ELSE IF ~HasPrivate(recs, a) THEN 1 ELSE 2

\* C13: every step keeps the records and the links there were (both only
\* grow); no agent's lifecycle state goes back; an agent gets its first
\* private record, and any record that starts a chain is written, only by its
\* own store; and a record with a predecessor is written only by an update of
\* its author, onto one of the author's existing private records.
C13_MonotonicLifecycle ==
  [][ /\ Len(records') >= Len(records)
      /\ \A h \in 1..Len(records) : records'[h] = records[h]
      /\ Len(links') >= Len(links)
      /\ \A i \in 1..Len(links) : links'[i] = links[i]
      /\ \A a \in Agents :
           /\ Lifecycle(records', links', a) >= Lifecycle(records, links, a)
           /\ (HasPrivate(records', a) /\ ~HasPrivate(records, a)) =>
                (last'.op = "store" /\ last'.caller = a)
      /\ \A h \in (1..Len(records')) \ (1..Len(records)) :
           records'[h].kind = "PrivatePersonData" =>
             /\ records'[h].author = last'.caller
             /\ records'[h].prev = 0 => last'.op = "store"
             /\ records'[h].prev # 0 =>
                  /\ last'.op = "update"
                  /\ records'[h].prev \in 1..Len(records)
                  /\ records[records'[h].prev].kind = "PrivatePersonData"
                  /\ records[records'[h].prev].author = last'.caller
    ]_vars

C13_Witness ==
  /\ UpdateOk
  /\ Lifecycle(records, links, last.caller) = 2
  /\ records[last.hash].prev = last.previous

\* C14: a successful store adds exactly one record, a private record of the
\* caller at the hash it returns; if the caller has an AgentToPerson link it
\* adds exactly one link, a PersonToPrivateData link from the target of the
\* caller's first AgentToPerson link to that hash, and otherwise no link; it
\* adds no AgentToPerson link.
C14_StoreLinkingStep ==
  [][ (last'.op = "store" /\ last'.result.status = "ok") =>
        LET person_links == get_links(links, last'.caller, "AgentToPerson") IN
        /\ records' = Append(records, records'[Len(records')])
        /\ records'[Len(records')].kind = "PrivatePersonData"
        /\ records'[Len(records')].author = last'.caller
        /\ last'.result.value[1].action_hash = Len(records')
        /\ IF person_links # << >>
           THEN links' = Append(links, [base |-> person_links[1].target,
                                        target |-> Len(records'),
                                        type |-> "PersonToPrivateData"])
           ELSE links' = links
        /\ \A a \in Agents :
             get_links(links', a, "AgentToPerson") = get_links(links, a, "AgentToPerson")
    ]_vars

C14_Witness ==
  /\ StoreOk
  /\ Len(get_links(links, last.caller, "AgentToPerson")) = 2
  /\ links[Len(links)].type = "PersonToPrivateData"
  /\ links[Len(links)].base = get_links(links, last.caller, "AgentToPerson")[1].target
  /\ links[Len(links)].target = last.hash

\* C15: get_my_private_person_data follows the caller's first AgentToPerson
\* link and that profile's first PersonToPrivateData link only: when that
\* link's target is unknown, unreadable by the caller or not a
\* PrivatePersonData record, it returns nothing, whatever the later links
\* point to; otherwise it returns the entry at that target.
C15_FirstEdgeOnly ==
  /\ \A a \in Agents :
       LET pl == get_links(links, a, "AgentToPerson")
           dl == get_links(links, pl[1].target, "PersonToPrivateData")
       IN
       (pl # << >> /\ dl # << >>) =>
         IF Unreadable(dl[1].target, a) \/ records[dl[1].target].kind # "PrivatePersonData"
         THEN MyData(a).value = Some(None) /\ MyData(a).from = 0
         ELSE /\ MyData(a).value = Some(Some(records[dl[1].target].entry))
              /\ MyData(a).from = dl[1].target
  /\ (last.op = "get" /\ last.fault = "none") =>
       /\ last.result.status = "ok"
       /\ last.result.value = MyData(last.caller).value
       /\ last.hash = MyData(last.caller).from

C15_Witness ==
  /\ last.op = "get" /\ last.result = Ok(None)
  /\ Len(DataLinks(links, last.caller)) >= 2
  /\ ~Unreadable(DataLinks(links, last.caller)[2].target, last.caller)
  /\ records[DataLinks(links, last.caller)[2].target].kind = "PrivatePersonData"

\* C16: once get_my_private_person_data returns data to an agent, it returns
\* the same data, from the same record, after every later step: no store and
\* no update changes it, and an update of the record it is read from does not
\* make it return the new version.
C16_GetStable ==
  [][ /\ \A a \in Agents :
           (MyData(a).status = "ok" /\ MyData(a).value # Some(None)) =>
             get_my_private_person_data(records', links', a, "none") = MyData(a)
      /\ (last'.op = "get" /\ last'.fault = "none") =>
           /\ last'.result.value = MyData(last'.caller).value
           /\ last'.hash = MyData(last'.caller).from
    ]_vars

C16_Witness ==
  /\ UpdateOk
  /\ last.previous = MyData(last.caller).from
  /\ records[last.hash].prev = last.previous
  /\ MyData(last.caller).value = Some(Some(records[last.previous].entry))
  /\ records[last.hash].entry # records[last.previous].entry

\* C17: every PersonToPrivateData link targets an existing PrivatePersonData
\* record that starts a chain and whose author is the author of the profile
\* the link starts at; such a link is added only by a successful store, after
\* the read-back returned the record the store wrote, and targets that record;
\* a store that fails with EntryOperationFailed adds no link.
C17_NoDanglingEdges ==
  [][ /\ \A i \in 1..Len(links') :
           links'[i].type = "PersonToPrivateData" =>
             /\ links'[i].target \in 1..Len(records')
             /\ records'[links'[i].target].kind = "PrivatePersonData"
             /\ records'[links'[i].target].prev = 0
             /\ records'[links'[i].target].author = records'[links'[i].base].author
      /\ (links' # links /\ last'.op # "create_profile") =>
           /\ last'.op = "store" /\ last'.result.status = "ok"
           /\ Len(records') = Len(records) + 1
           /\ last'.readback # None /\ last'.readback[1] # None
           /\ last'.readback[1][1].action_hash = Len(records')
           /\ last'.readback[1][1].author = last'.caller
           /\ Len(links') = Len(links) + 1
           /\ links'[Len(links')].target = Len(records')
      /\ (last'.op = "store" /\ last'.result = Err("EntryOperationFailed")) =>
           links' = links
    ]_vars

C17_Witness ==
  /\ StoreOk
  /\ Len(records) = 3 /\ Len(links) = 2
  /\ records[1].kind = "Person" /\ records[1].author = last.caller
  /\ records[2].kind = "PrivatePersonData" /\ records[2].author = last.caller
  /\ links[2] = [base |-> 1, target |-> 3, type |-> "PersonToPrivateData"]
  /\ last.readback = Some(Some(last.result.value[1]))

\* whether no PersonToPrivateData link targets hash h
Unlinked(lnks, h) ==
  \A i \in 1..Len(lnks) : lnks[i].type = "PersonToPrivateData" => lnks[i].target # h

\* C18: the record of a successful store by a caller without an AgentToPerson
\* link is the target of no PersonToPrivateData link, and a private record that
\* no PersonToPrivateData link targets stays so after every step and is
\* returned by no get_my_private_person_data, also once its author has a
\* profile and stores or updates again.
C18_OrphansStayOrphaned ==
  [][ /\ (/\ last'.op = "store" /\ last'.result.status = "ok"
          /\ get_links(links, last'.caller, "AgentToPerson") = << >>) =>
           Unlinked(links', Len(records'))
      /\ \A h \in 1..Len(records) :
           (records[h].kind = "PrivatePersonData" /\ Unlinked(links, h)) =>
             /\ Unlinked(links', h)
             /\ \A a \in Agents :
                  get_my_private_person_data(records', links', a, "none").from # h
             /\ last'.op = "get" => last'.hash # h
    ]_vars

C18_Witness ==
  /\ last.op = "get" /\ last.hash = 3
  /\ records[1].kind = "PrivatePersonData" /\ records[1].author = last.caller
  /\ records[2].kind = "Person" /\ records[2].author = last.caller
  /\ Unlinked(links, 1)
  /\ records[3].entry # records[1].entry

\* C19: an update whose original resolves, whose previous is a private record
\* of the caller and whose read-back returns the record succeeds and appends
\* one record whose predecessor is previous, whatever record the original is:
\* the original need not be on the chain of previous.
C19_OriginalOnlyExistence ==
  [][ (/\ last'.op = "update"
       /\ ~Unreadable(last'.original, last'.caller)
       /\ last'.previous \in 1..Len(records)
       /\ records[last'.previous].kind = "PrivatePersonData"
       /\ records[last'.previous].author = last'.caller
       /\ last'.readback # Some(None)) =>
        /\ last'.result.status = "ok"
        /\ Len(records') = Len(records) + 1
        /\ records'[Len(records')].prev = last'.previous
        /\ records'[Len(records')].author = last'.caller
        /\ records'[Len(records')].entry = PrivatePersonData(last'.input[1])
        /\ last'.result.value[1].action_hash = Len(records')
    ]_vars

C19_Witness ==
  /\ UpdateOk
  /\ last.original # last.previous
  /\ records[last.original].kind = "PrivatePersonData"
  /\ records[last.original].prev = 0
  /\ records[last.previous].prev = 0
  /\ records[last.hash].prev = last.previous

\* C20: a get_my_private_person_data changes neither the records nor the
\* links, whatever it returns, an error included; when no host call reports
\* an error it returns what the state it is called in determines, and so
\* returns the same to the same caller when called again with no write in
\* between.
C20_GetReadOnly ==
  [][ last'.op = "get" =>
        /\ records' = records
        /\ links' = links
        /\ get_my_private_person_data(records', links', last'.caller, "none")
             = MyData(last'.caller)
        /\ last'.fault = "none" =>
             /\ last'.result.value = MyData(last'.caller).value
             /\ last'.hash = MyData(last'.caller).from
             /\ (last.op = "get" /\ last.caller = last'.caller /\ last.fault = "none") =>
                  last'.result = last.result
    ]_vars

C20_Witness ==
  /\ last.op = "get" /\ last.hash # 0
  /\ last.result = Ok(Some(records[last.hash].entry))
  /\ Len(links) >= 2
  /\ get(records, last.hash, last.caller) # None

====
